---- MODULE Spec2Model ----
(***************************************************************************)
(* Model of uliweb/utils/workers.py: a Manager process that keeps one      *)
(* forked child per roster entry alive, and the Worker loop that runs in   *)
(* each child.                                                             *)
(*                                                                         *)
(* Processes are identified by their pid.  A child that has exited stays   *)
(* in the process table as a zombie until the Manager reaps it with        *)
(* os.waitpid; psutil.pid_exists is true for running and zombie entries.   *)
(* Pid numbers are handed out in increasing order and are not recycled     *)
(* within a run; when they are used up os.fork can only fail.              *)
(***************************************************************************)
EXTENDS Integers, FiniteSets, Sequences, TLC

\* ---------------------------------------------------------------- bounds
MaxPid == 3
MaxRequests == 2
MaxCalls == 3

\* ------------------------------------------------------------- constants
\* Python's None for the optional integer settings
None == -1
NSlots == 2
soft_memory_limit == 200
hard_memory_limit == 300
SIGTERM == 15
SIGKILL == 9

Pids == 1..MaxPid
Slots == 0..(NSlots - 1)

\* Python truthiness of an optional integer: None and 0 are falsy
Truthy(x) == x # None /\ x # 0

\* What one call of the user-supplied run() may do.  "overrun" is a call
\* that is still running when the alarm set by Timeout goes off.
Outcomes == {"truthy", "falsy", "error", "overrun"}
WorkModes == {{"truthy"}, {"falsy"}, {"error"}, {"truthy", "overrun"}, Outcomes}

\* Worker.__init__: the object as constructed (is_exit None, count 0)
WorkerObject(max_requests, soft, hard, timeout, check_point, work) ==
    [max_requests |-> max_requests,
     soft_memory_limit |-> soft,
     hard_memory_limit |-> hard,
     timeout |-> timeout,
     check_point |-> check_point,
     work |-> work,
     is_exit |-> "None",
     count |-> 0]

\* Every Worker configuration considered for a Worker run on its own
AllWorkers ==
    { WorkerObject(m, soft_memory_limit, hard_memory_limit, t, c, w) :
        m \in {None} \cup (0..MaxRequests), t \in {None, 5},
        c \in {None, 1}, w \in WorkModes }

\* The roster given to the Manager, after the one of the module's __main__
\* block: a Worker with the default limits and a NewWorker with its own
\* limits and a timeout (here also a check point and a run() that may fail)
Rosters ==
    { [s \in Slots |->
         IF s = 0
           THEN WorkerObject(2, soft_memory_limit, hard_memory_limit, None,
                             None, {"truthy"})
           ELSE WorkerObject(1, 5, 10, 5, 1, {"truthy", "error", "overrun"})] }

\* An empty entry of the process table
NoProc ==
    [pc |-> "none", slot |-> None, worker |-> WorkerObject(None, 0, 0, None, None, {}),
     alarm |-> FALSE, pending |-> FALSE, calls |-> 0,
     reported |-> "None", status |-> None]

\* No Manager step has touched the process table yet
\* (was: the pid the slot held before the visit; kills: the os.kill calls made)
NoStep ==
    [slot |-> None, was |-> 0, pid |-> 0, what |-> "none", mem |-> 0,
     kills |-> {}]

VARIABLES
    workers,    \* Manager.workers: the roster, slot index -> Worker object
    mpc,        \* where the Manager is in start()/run()
    is_exit,    \* Manager.is_exit
    i,          \* loop variable of `for i, worker in enumerate(self.workers)`
    pids,       \* local `pids` of Manager.run: slot index -> pid (0 = absent)
    step,       \* what the Manager's latest slot visit or shutdown round did
    procs,      \* the OS process table: pid -> child process
    nextpid     \* the next pid os.fork hands out

vars == <<workers, mpc, is_exit, i, pids, step, procs, nextpid>>

mvars == <<workers, mpc, is_exit, i, pids, step, nextpid>>

\* psutil.pid_exists: running and zombie processes both exist
pid_exists(pid) == pid \in Pids /\ procs[pid].pc # "none"

Running(pid) == pid \in Pids /\ procs[pid].pc \notin {"none", "zombie"}

\* ------------------------------------------------------------ the Worker
\* Faulty variant of LoopCondition: the while condition without `and not self.is_exit`
LoopCondition_NoExitCheck(w) ==
    ~Truthy(w.max_requests)
      \/ (Truthy(w.max_requests) /\ w.count < w.max_requests)

\* The condition of the while loop of Worker._run
LoopCondition(w) ==
    /\ (~Truthy(w.max_requests)
          \/ (Truthy(w.max_requests) /\ w.count < w.max_requests))
    /\ w.is_exit = "None"

\* Faulty variant of after_run: the recorded exit reason is not looked at
after_run_IgnoresReason(w) ==
    IF w.max_requests = None THEN "TypeError" ELSE "max_requests"

\* What Worker.after_run logs; formatting max_requests with %d fails on None
after_run(w) ==
    IF w.is_exit = "signal" THEN "signal"
    ELSE IF w.is_exit = "timeout" THEN "timeout"
    ELSE IF w.max_requests = None THEN "TypeError"
    ELSE "max_requests"

\* Worker.signal_handler
signal_handler(w) == [w EXCEPT !.is_exit = "signal"]

\* Faulty variant of Exited: without the `finally: sys.exit(0)` of the child
\* branch, an exception that escaped start() shows in the exit status
Exited_NoFinally(proc, reported, escaped) ==
    [proc EXCEPT !.pc = "zombie", !.alarm = FALSE, !.pending = FALSE,
                 !.reported = reported,
                 !.status = IF escaped THEN 1 ELSE 0]

\* The process leaves worker.start(): in a forked child the finally clause
\* calls sys.exit(0); a Worker started on its own ends with its script,
\* with status 1 when an exception escaped start().
Exited(proc, reported, escaped) ==
    [proc EXCEPT !.pc = "zombie", !.alarm = FALSE, !.pending = FALSE,
                 !.reported = reported,
                 !.status = IF mpc = "absent" /\ escaped THEN 1 ELSE 0]

\* Worker.start up to the call of _run: install the handlers, call init()
WorkerStart(p) ==
    /\ procs[p].pc = "forked"
    /\ procs' = [procs EXCEPT ![p].pc = "loop"]
    /\ UNCHANGED mvars

\* Worker.start when init() raises (init is a hook subclasses override):
\* the handlers are installed, the exception escapes start()
WorkerInitRaises(p) ==
    /\ procs[p].pc = "forked"
    /\ procs' = [procs EXCEPT ![p] = Exited(procs[p], "Exception", TRUE)]
    /\ UNCHANGED mvars

\* One evaluation of the while condition; when it holds the try block is
\* entered, Timeout.__enter__ arms the alarm and run() is called.
WorkerLoop(p) ==
    LET proc == procs[p]
        w == proc.worker
    IN  /\ proc.pc = "loop"
        /\ IF LoopCondition(w)
             THEN /\ proc.calls < MaxCalls
                  /\ procs' = [procs EXCEPT ![p].pc = "run",
                                            ![p].alarm = Truthy(w.timeout),
                                            ![p].calls = proc.calls + 1]
             ELSE procs' = [procs EXCEPT ![p].pc = "after_run"]
        /\ UNCHANGED mvars

\* Faulty variant of WorkerRunReturns: `self.count += 1` without `if ret:`
WorkerRunReturns_CountsAll(p) ==
    LET proc == procs[p]
        w == proc.worker
    IN  /\ proc.pc = "run"
        /\ \E ret \in {"truthy", "falsy"} \cap w.work :
             procs' = [procs EXCEPT
                 ![p].alarm = FALSE,
                 ![p].worker.count = w.count + 1,
                 ![p].pc = IF Truthy(w.check_point) THEN "sleep" ELSE "loop"]
        /\ UNCHANGED mvars

\* run() returns ret: Timeout.__exit__ disarms the alarm, a truthy ret is
\* counted, and the check-point sleep follows when check_point is set.
WorkerRunReturns(p) ==
    LET proc == procs[p]
        w == proc.worker
    IN  /\ proc.pc = "run"
        /\ \E ret \in {"truthy", "falsy"} \cap w.work :
             procs' = [procs EXCEPT
                 ![p].alarm = FALSE,
                 ![p].worker.count =
                     IF ret = "truthy" THEN w.count + 1 ELSE w.count,
                 ![p].pc = IF Truthy(w.check_point) THEN "sleep" ELSE "loop"]
        /\ UNCHANGED mvars

\* Faulty variant of WorkerRunRaises: the except clause leaves the loop
WorkerRunRaises_Break(p) ==
    LET proc == procs[p]
    IN  /\ proc.pc = "run"
        /\ "error" \in proc.worker.work
        /\ procs' = [procs EXCEPT ![p].alarm = FALSE, ![p].pc = "after_run"]
        /\ UNCHANGED mvars

\* Faulty variant of WorkerRunRaises: Timeout.__exit__ is skipped when run()
\* raises, so the alarm stays armed
WorkerRunRaises_NoDisarm(p) ==
    LET proc == procs[p]
    IN  /\ proc.pc = "run"
        /\ "error" \in proc.worker.work
        /\ procs' = [procs EXCEPT ![p].pc = "loop"]
        /\ UNCHANGED mvars

\* run() raises an Exception other than TimeoutException: __exit__ disarms
\* the alarm, the except clause logs it and the loop goes on.
WorkerRunRaises(p) ==
    LET proc == procs[p]
    IN  /\ proc.pc = "run"
        /\ "error" \in proc.worker.work
        /\ procs' = [procs EXCEPT ![p].alarm = FALSE, ![p].pc = "loop"]
        /\ UNCHANGED mvars

\* time.sleep(self.check_point) ends
WorkerSleepEnds(p) ==
    /\ procs[p].pc = "sleep"
    /\ procs' = [procs EXCEPT ![p].pc = "loop"]
    /\ UNCHANGED mvars

\* Faulty variant of TimeoutCaught: the except clause without its `return`
TimeoutCaught_NoReturn(proc) ==
    [proc EXCEPT !.alarm = FALSE, !.worker.is_exit = "timeout", !.pc = "loop"]

\* Lines 108-110: `except TimeoutException`, after Timeout.__exit__ has
\* disarmed the alarm: is_exit = 'timeout' and return
TimeoutCaught(proc) ==
    [proc EXCEPT !.alarm = FALSE, !.worker.is_exit = "timeout",
                 !.pc = "after_run"]

\* The alarm goes off: Timeout.raise_timeout raises TimeoutException where
\* the process is.  Inside the try block it is caught (is_exit = 'timeout',
\* return); anywhere else it escapes start().
WorkerAlarm(p) ==
    LET proc == procs[p]
    IN  /\ proc.alarm
        /\ proc.pc = "run" => "overrun" \in proc.worker.work
        /\ IF proc.pc \in {"run", "sleep"}
             THEN procs' = [procs EXCEPT ![p] = TimeoutCaught(proc)]
             ELSE procs' = [procs EXCEPT ![p] = Exited(proc, "TimeoutException", TRUE)]
        /\ UNCHANGED mvars

\* Faulty variant of WorkerAfterRun: without the `finally: sys.exit(0)` of
\* the child branch, the child goes on in the for loop of Manager.run after
\* start() has returned and forks a process for the next roster entry
\* before it ends
WorkerAfterRun_Continues(p) ==
    LET proc == procs[p]
        r == after_run(proc.worker)
        s == (proc.slot + 1) % NSlots
    IN  /\ proc.pc = "after_run"
        /\ IF mpc # "absent" /\ nextpid <= MaxPid
             THEN /\ procs' = [procs EXCEPT
                        ![p] = Exited(proc, r, r = "TypeError"),
                        ![nextpid] = [NoProc EXCEPT !.pc = "forked",
                                                    !.slot = s,
                                                    !.worker = workers[s]]]
                  /\ nextpid' = nextpid + 1
             ELSE /\ procs' = [procs EXCEPT
                        ![p] = Exited(proc, r, r = "TypeError")]
                  /\ nextpid' = nextpid
        /\ UNCHANGED <<workers, mpc, is_exit, i, pids, step>>

\* Worker.after_run, then the return from start()
WorkerAfterRun(p) ==
    LET proc == procs[p]
        r == after_run(proc.worker)
    IN  /\ proc.pc = "after_run"
        /\ procs' = [procs EXCEPT ![p] = Exited(proc, r, r = "TypeError")]
        /\ UNCHANGED mvars

\* A pending SIGINT/SIGTERM is delivered.  Once start() has installed the
\* handlers Worker.signal_handler runs; before that a forked child still has
\* the handler it inherited from the Manager, which only sets the child's
\* copy of Manager.is_exit, and a Worker started on its own has the default
\* disposition, which ends the process.
WorkerSignal(p) ==
    LET proc == procs[p]
    IN  /\ proc.pc \notin {"none", "zombie"}
        /\ proc.pending
        /\ procs' = [procs EXCEPT ![p] =
             IF proc.pc # "forked"
               THEN [proc EXCEPT !.pending = FALSE,
                                 !.worker = signal_handler(proc.worker)]
             ELSE IF mpc = "absent"
               THEN [proc EXCEPT !.pc = "zombie", !.pending = FALSE,
                                 !.status = SIGTERM]
             ELSE [proc EXCEPT !.pending = FALSE]]
        /\ UNCHANGED mvars

\* Somebody outside (a terminal, an operator) sends SIGINT or SIGTERM to p
EnvSignalWorker(p) ==
    /\ Running(p)
    /\ ~procs[p].pending
    /\ procs' = [procs EXCEPT ![p].pending = TRUE]
    /\ UNCHANGED mvars

WorkerNext ==
    \E p \in Pids :
        \/ WorkerStart(p)
        \/ WorkerInitRaises(p)
        \/ WorkerLoop(p)
        \/ WorkerRunReturns(p)
        \/ WorkerRunRaises(p)
        \/ WorkerSleepEnds(p)
        \/ WorkerAlarm(p)
        \/ WorkerAfterRun(p)
        \/ WorkerSignal(p)
        \/ EnvSignalWorker(p)

\* ----------------------------------------------------------- the Manager
\* Faulty variant of Forked: the child of a respawn starts from a Worker
\* object that carries the exit reason of the slot's earlier process
Forked_SharedWorker(slot) ==
    [NoProc EXCEPT !.pc = "forked", !.slot = slot,
                   !.worker = IF pids[slot] = 0 THEN workers[slot]
                              ELSE [workers[slot] EXCEPT !.is_exit = "signal"]]

\* A child as os.fork leaves it: a copy of the Manager's memory, hence of
\* the roster's Worker object, about to call worker.start()
Forked(slot) ==
    [NoProc EXCEPT !.pc = "forked", !.slot = slot, !.worker = workers[slot]]

\* Faulty variant of create: the recorded pid is never looked up in the process table
create_OnlyUnset(pid) == pid = 0

\* Faulty variant of create: `if psutil.pid_exists(pid)` in place of `if not ...`
create_Inverted(pid) ==
    IF pid = 0 THEN TRUE
    ELSE IF pid_exists(pid) THEN TRUE
    ELSE FALSE

\* Lines 183-190: whether the slot gets a new process in this visit
create(pid) ==
    IF pid = 0 THEN TRUE
    ELSE IF ~pid_exists(pid) THEN TRUE
    ELSE FALSE

\* Worker.reached_soft_memory_limit / Worker.reached_hard_memory_limit
reached_soft_memory_limit(w, mem) == mem >= w.soft_memory_limit

\* Faulty variant of reached_hard_memory_limit: `>` in place of `>=`
reached_hard_memory_limit_Strict(w, mem) == mem > w.hard_memory_limit

reached_hard_memory_limit(w, mem) == mem >= w.hard_memory_limit

\* The signal the Manager sends for a memory reading (0 = none)
MemorySignal(w, mem) ==
    IF reached_hard_memory_limit(w, mem) THEN SIGKILL
    ELSE IF reached_soft_memory_limit(w, mem) THEN SIGTERM
    ELSE 0

\* What the memory readings of a running process may be, in MB
MemReadings(w) ==
    {w.soft_memory_limit - 1, w.soft_memory_limit,
     w.hard_memory_limit - 1, w.hard_memory_limit}

\* Manager.kill_child on the process table pt: os.kill only if the pid
\* exists.  SIGKILL ends a running process at once, SIGTERM becomes pending
\* for its handler; a zombie takes no signal.
kill_child(pt, pid, sig) ==
    IF pid \in Pids /\ pt[pid].pc \notin {"none", "zombie"}
      THEN IF sig = SIGKILL
             THEN [pt EXCEPT ![pid].pc = "zombie", ![pid].alarm = FALSE,
                             ![pid].pending = FALSE, ![pid].status = SIGKILL]
             ELSE [pt EXCEPT ![pid].pending = TRUE]
      ELSE pt

\* The os.kill calls kill_child makes on process table pt
Kills(pt, pid, sig) ==
    IF pid \in Pids /\ pt[pid].pc # "none" THEN {<<pid, sig>>} ELSE {}

\* The for loop moves to the next roster entry, or the pass is over
NextSlot ==
    IF i < NSlots - 1
      THEN /\ i' = i + 1
           /\ mpc' = "visit"
      ELSE /\ i' = i
           /\ mpc' = "sleep"

\* Manager.__init__ called with the roster `workers` and a log argument,
\* which is None (the default) or a log object.  With an empty roster the
\* guard of line 149 calls log.info on the argument as passed, before
\* sys.exit(0): on None that raises AttributeError.  Otherwise the Manager
\* is constructed (self.log = log or logging.getLogger(__name__)).
Manager__init__ ==
    /\ mpc = "new"
    /\ \E log \in {"None", "log"} :
         IF DOMAIN workers = {}
           THEN IF log = "None"
                  THEN mpc' = "AttributeError"
                  ELSE mpc' = "exited"
           ELSE mpc' = "start"
    /\ UNCHANGED <<workers, is_exit, i, pids, step, procs, nextpid>>

\* Manager.start up to the call of run: install the handlers, call init()
ManagerStart ==
    /\ mpc = "start"
    /\ mpc' = "loop"
    /\ UNCHANGED <<workers, is_exit, i, pids, step, procs, nextpid>>

\* `while not self.is_exit`
ManagerLoop ==
    /\ mpc = "loop"
    /\ IF ~is_exit
         THEN /\ mpc' = "visit"
              /\ i' = 0
         ELSE /\ mpc' = "shutdown"
              /\ i' = i
    /\ UNCHANGED <<workers, is_exit, pids, step, procs, nextpid>>

\* Lines 192-196: os.fork succeeds, the parent records the child's pid
ManagerSpawn ==
    /\ mpc = "visit"
    /\ create(pids[i])
    /\ nextpid <= MaxPid
    /\ procs' = [procs EXCEPT ![nextpid] = Forked(i)]
    /\ pids' = [pids EXCEPT ![i] = nextpid]
    /\ nextpid' = nextpid + 1
    /\ step' = [NoStep EXCEPT !.slot = i, !.was = pids[i], !.pid = nextpid,
                               !.what = "spawned"]
    /\ NextSlot
    /\ UNCHANGED <<workers, is_exit>>

\* Line 193: os.fork raises OSError.  No handler of run() or start()
\* catches it, so it ends Manager.start().
ManagerSpawnFails ==
    /\ mpc = "visit"
    /\ create(pids[i])
    /\ mpc' = "crashed"
    /\ step' = [NoStep EXCEPT !.slot = i, !.was = pids[i], !.pid = pids[i],
                               !.what = "spawn_failed"]
    /\ UNCHANGED <<workers, is_exit, i, pids, procs, nextpid>>

\* Lines 205-217 for a child that has exited: os.waitpid in get_memory
\* reaps it and get_memory returns 0
ManagerReap ==
    LET pid == pids[i]
        reaped == [procs EXCEPT ![pid] = NoProc]
        sig == MemorySignal(workers[i], 0)
    IN  /\ mpc = "visit"
        /\ ~create(pid)
        /\ procs[pid].pc = "zombie"
        /\ procs' = IF sig = 0 THEN reaped ELSE kill_child(reaped, pid, sig)
        /\ step' = [slot |-> i, was |-> pid, pid |-> pid, what |-> "reaped",
                    mem |-> 0,
                    kills |-> IF sig = 0 THEN {} ELSE Kills(reaped, pid, sig)]
        /\ NextSlot
        /\ UNCHANGED <<workers, is_exit, pids, nextpid>>

\* Lines 205-217 for a running child: get_memory returns its memory and
\* the limits decide on a signal
ManagerInspect ==
    LET pid == pids[i]
    IN  /\ mpc = "visit"
        /\ ~create(pid)
        /\ procs[pid].pc # "zombie"
        /\ \E mem \in MemReadings(workers[i]) :
             LET sig == MemorySignal(workers[i], mem)
             IN  /\ procs' = IF sig = 0 THEN procs
                             ELSE kill_child(procs, pid, sig)
                 /\ step' = [slot |-> i, was |-> pid, pid |-> pid, what |-> "read",
                             mem |-> mem,
                             kills |-> IF sig = 0 THEN {}
                                       ELSE Kills(procs, pid, sig)]
        /\ NextSlot
        /\ UNCHANGED <<workers, is_exit, pids, nextpid>>

\* Faulty variant of ManagerInspectFails: the try/except of lines 205-217
\* is missing, the exception leaves run()
ManagerInspectFails_Aborts ==
    LET pid == pids[i]
    IN  /\ mpc = "visit"
        /\ ~create(pid)
        /\ procs[pid].pc # "zombie"
        /\ step' = [NoStep EXCEPT !.slot = i, !.was = pid, !.pid = pid,
                               !.what = "error"]
        /\ mpc' = "crashed"
        /\ UNCHANGED <<workers, is_exit, i, pids, procs, nextpid>>

\* Lines 216-217: get_memory raises (psutil cannot read the process); the
\* exception is logged and the pass goes on
ManagerInspectFails ==
    LET pid == pids[i]
    IN  /\ mpc = "visit"
        /\ ~create(pid)
        /\ procs[pid].pc # "zombie"
        /\ step' = [NoStep EXCEPT !.slot = i, !.was = pid, !.pid = pid,
                               !.what = "error"]
        /\ NextSlot
        /\ UNCHANGED <<workers, is_exit, pids, procs, nextpid>>

\* Line 219: time.sleep(self.check_point) at the end of a pass
ManagerSleep ==
    /\ mpc = "sleep"
    /\ mpc' = "loop"
    /\ UNCHANGED <<workers, is_exit, i, pids, step, procs, nextpid>>

RECURSIVE KillAll_Forceful(_, _)
\* Faulty variant of KillAll: the shutdown round sends SIGKILL
KillAll_Forceful(pt, S) ==
    IF S = {} THEN pt
    ELSE LET s == CHOOSE x \in S : TRUE
         IN  KillAll_Forceful(kill_child(pt, pids[s], SIGKILL), S \ {s})

RECURSIVE KillAll(_, _)
\* Lines 221-222: kill_child(pid) for every recorded pid
KillAll(pt, S) ==
    IF S = {} THEN pt
    ELSE LET s == CHOOSE x \in S : TRUE
         IN  KillAll(kill_child(pt, pids[s], SIGTERM), S \ {s})

\* Lines 221-222: the round of SIGTERMs after the loop
ManagerShutdown ==
    LET recorded == {s \in Slots : pids[s] # 0}
    IN  /\ mpc = "shutdown"
        /\ procs' = KillAll(procs, recorded)
        /\ step' = [NoStep EXCEPT !.what = "shutdown",
                      !.kills = UNION {Kills(procs, pids[s], SIGTERM) : s \in recorded}]
        /\ mpc' = "wait"
        /\ UNCHANGED <<workers, is_exit, i, pids, nextpid>>

\* Lines 223-224 and Manager.after_run: the grace sleep, then start() returns
ManagerWait ==
    /\ mpc = "wait"
    /\ mpc' = "done"
    /\ UNCHANGED <<workers, is_exit, i, pids, step, procs, nextpid>>

\* Manager.signal_handler, run when SIGINT or SIGTERM reaches the Manager
ManagerSignal ==
    /\ mpc \in {"loop", "visit", "sleep", "shutdown", "wait"}
    /\ is_exit' = TRUE
    /\ UNCHANGED <<workers, mpc, i, pids, step, procs, nextpid>>

ManagerNext ==
    \/ Manager__init__
    \/ ManagerStart
    \/ ManagerLoop
    \/ ManagerSpawn
    \/ ManagerSpawnFails
    \/ ManagerReap
    \/ ManagerInspect
    \/ ManagerInspectFails
    \/ ManagerSleep
    \/ ManagerShutdown
    \/ ManagerWait
    \/ ManagerSignal

\* ------------------------------------------------------ specifications
\* The process about to call Manager(workers, log): the roster is the one
\* of Rosters or an empty list
Init ==
    /\ workers \in Rosters \cup {<< >>}
    /\ mpc = "new"
    /\ is_exit = FALSE
    /\ i = 0
    /\ pids = [s \in Slots |-> 0]
    /\ step = NoStep
    /\ procs = [p \in Pids |-> NoProc]
    /\ nextpid = 1

Next == ManagerNext \/ WorkerNext

Spec == Init /\ [][Next]_vars

\* One Worker constructed in a process of its own, before start(); there
\* is no Manager.
WorkerInit ==
    /\ workers = << >>
    /\ mpc = "absent"
    /\ is_exit = FALSE
    /\ i = 0
    /\ pids = [s \in Slots |-> 0]
    /\ step = NoStep
    /\ \E w \in AllWorkers :
         procs = [p \in Pids |->
                    IF p = 1 THEN [NoProc EXCEPT !.pc = "forked", !.worker = w]
                    ELSE NoProc]
    /\ nextpid = 2

WorkerSpec == WorkerInit /\ [][WorkerNext]_vars

\* ====================================================== claims: Worker
\* The Worker of process p, and whether p is inside Worker.start()
W(p) == procs[p].worker

InStart(p) == procs[p].pc \in {"loop", "run", "sleep", "after_run"}

\* The loop of _run has been left
LoopLeft(p) == procs[p].pc \in {"after_run", "zombie"}

\* C1: with max_requests = N (N >= 0), a run() that always returns a truthy
\* value and never overruns, and no signal (so is_exit is still None), run()
\* is never called more than N times, and when the loop has been left it
\* was called exactly N times, count = N and after_run reports max requests.
C1_ExactlyNIterations ==
    \A p \in Pids :
        (/\ InStart(p)
         /\ W(p).max_requests # None
         /\ W(p).work = {"truthy"}
         /\ W(p).is_exit = "None")
        => /\ procs[p].calls <= W(p).max_requests
           /\ procs[p].pc = "after_run" =>
                /\ procs[p].calls = W(p).max_requests
                /\ W(p).count = W(p).max_requests
                /\ after_run(W(p)) = "max_requests"

\* The same statement for N >= 1 only (C1 fails for N = 0 alone)
C1_ExactlyNIterationsFromOne ==
    \A p \in Pids :
        (/\ InStart(p)
         /\ W(p).max_requests >= 1
         /\ W(p).work = {"truthy"}
         /\ W(p).is_exit = "None")
        => /\ procs[p].calls <= W(p).max_requests
           /\ procs[p].pc = "after_run" =>
                /\ procs[p].calls = W(p).max_requests
                /\ W(p).count = W(p).max_requests
                /\ after_run(W(p)) = "max_requests"

\* C7: a step in which the alarm goes off while run() is running ends the
\* loop at once with is_exit = 'timeout': the call is not counted, and if
\* it was the first call count is 0; and once the loop has been left there
\* is no sleep and no further call of run().
C7_TimeoutEndsLoop ==
    [][\A p \in Pids :
         /\ (WorkerAlarm(p) /\ procs[p].pc = "run")
              => /\ procs'[p].pc = "after_run"
                 /\ procs'[p].worker.is_exit = "timeout"
                 /\ procs'[p].worker.count = W(p).count
                 /\ procs'[p].calls = 1 => procs'[p].worker.count = 0
         /\ (LoopLeft(p) /\ procs'[p].pc # "none")
              => /\ procs'[p].pc \in {"after_run", "zombie"}
                 /\ procs'[p].calls = procs[p].calls
                 /\ procs'[p].worker.count = W(p).count]_vars

\* C7 witness: the first call of run() overran; the loop is left with
\* is_exit = 'timeout' and count 0
C7_Witness ==
    \E p \in Pids :
        /\ procs[p].pc = "after_run"
        /\ W(p).is_exit = "timeout"
        /\ procs[p].calls = 1
        /\ W(p).count = 0

\* C8: with a run() that raises an Exception on every call, count stays 0
\* whatever the number of calls, and the loop is left only with a signal or
\* a timeout recorded or with the bound max_requests reached.
C8_ErrorsNeverEndLoop ==
    \A p \in Pids :
        (procs[p].pc # "none" /\ W(p).work = {"error"})
        => /\ W(p).count = 0
           /\ procs[p].pc = "after_run" =>
                \/ W(p).is_exit \in {"signal", "timeout"}
                \/ (Truthy(W(p).max_requests)
                      /\ W(p).count >= W(p).max_requests)

\* C8 witness: run() has raised on each of several calls and the loop goes on
C8_Witness ==
    \E p \in Pids :
        /\ W(p).work = {"error"}
        /\ procs[p].calls >= 2
        /\ procs[p].pc = "loop"
        /\ W(p).is_exit = "None"
        /\ W(p).count = 0

\* C9: once is_exit holds 'signal' or 'timeout', no later event of the same
\* process changes it.
C9_ExitReasonSetOnce ==
    [][\A p \in Pids :
         (W(p).is_exit \in {"signal", "timeout"} /\ procs'[p].pc # "none")
           => procs'[p].worker.is_exit = W(p).is_exit]_vars

\* C10: the delivery of a signal to a Worker whose handlers are installed
\* changes nothing but is_exit, which becomes 'signal' (the call of run() in
\* progress goes on); and with is_exit set, the next evaluation of the loop
\* condition leaves the loop and run() is not called again.
C10_SignalStopsAtLoopCondition ==
    [][\A p \in Pids :
         /\ (WorkerSignal(p) /\ InStart(p))
              => procs'[p] = [procs[p] EXCEPT !.pending = FALSE,
                                              !.worker.is_exit = "signal"]
         /\ (InStart(p) /\ W(p).is_exit # "None" /\ procs'[p].pc # "none")
              => /\ procs'[p].calls = procs[p].calls
                 /\ procs[p].pc = "loop" =>
                      procs'[p].pc \in {"loop", "after_run"}
                 /\ procs[p].pc # "run" => procs'[p].pc # "run"]_vars

\* C10 witness: the signal came during a call of run(), the call returned
\* and was counted, and the loop was left below the bound
C10_Witness ==
    \E p \in Pids :
        /\ procs[p].pc = "after_run"
        /\ W(p).is_exit = "signal"
        /\ W(p).count = 1
        /\ W(p).max_requests = 2

\* ===================================================== claims: Manager
\* The Manager finishes its visit of roster entry s in this step
VisitDone(s) == mpc = "visit" /\ i = s /\ (mpc' # "visit" \/ i' # s)

\* The processes that exist after this step and did not before
Born == {p \in Pids : procs[p].pc = "none" /\ procs'[p].pc # "none"}

\* C2: when, with no shutdown requested, the Manager visits a slot whose
\* recorded pid is not in the process table (and os.fork gives it a
\* process), exactly one process is created, it is a new process of that
\* same slot, its pid replaces the recorded one, and no other slot's pid
\* changes.
C2_RespawnSameSlot ==
    [][\A s \in Slots :
         (/\ VisitDone(s)
          /\ ~is_exit
          /\ pids[s] # 0
          /\ ~pid_exists(pids[s])
          /\ mpc' # "crashed")
         => /\ pids'[s] # pids[s]
            /\ Born = {pids'[s]}
            /\ procs'[pids'[s]].pc = "forked"
            /\ procs'[pids'[s]].slot = s
            /\ \A t \in Slots \ {s} : pids'[t] = pids[t]]_vars

\* C2 witness: a slot that held a pid has just been given a new process
C2_Witness ==
    /\ step.what = "spawned"
    /\ step.was # 0
    /\ pids[step.slot] = step.pid
    /\ step.pid # step.was
    /\ ~is_exit

\* C3: a failure of os.fork for a slot does not end the Manager: after it
\* the Manager is still in its pass or in a later one.
C3_SpawnFailureNotFatal ==
    step.what = "spawn_failed" => mpc \in {"visit", "sleep", "loop"}

\* C4: no slot ever has two running child processes.
C4_OneLiveChildPerSlot ==
    \A s \in Slots :
        Cardinality({p \in Pids : Running(p) /\ procs[p].slot = s}) <= 1

\* C4 witness: a slot has been respawned and both slots have a running child
C4_Witness ==
    /\ \A s \in Slots : Running(pids[s])
    /\ \E s \in Slots : pids[s] > NSlots

\* C5: once the Manager has received a signal, it ends by the shutdown
\* sequence and in no other way: start() is not left by an exception, and
\* when the grace wait is reached a SIGTERM has been sent to exactly the
\* recorded pids that exist.
C5_SignalLeadsToShutdown ==
    /\ is_exit => mpc # "crashed"
    /\ mpc \in {"wait", "done"} =>
         /\ step.what = "shutdown"
         /\ step.kills =
              {<<pids[s], SIGTERM>> : s \in {t \in Slots : pid_exists(pids[t])}}

\* C6: for every running child whose memory the Manager has read, the
\* signal sent is decided by the reading alone: SIGKILL from the hard limit
\* up, SIGTERM from the soft limit up to the hard limit, none below the soft
\* limit.
C6_MemoryLimits ==
    step.what = "read" =>
        LET w == workers[step.slot]
            mem == step.mem
        IN  /\ mem >= w.hard_memory_limit =>
                 step.kills = {<<step.pid, SIGKILL>>}
            /\ (w.soft_memory_limit <= mem /\ mem < w.hard_memory_limit) =>
                 step.kills = {<<step.pid, SIGTERM>>}
            /\ mem < w.soft_memory_limit => step.kills = {}

\* C6 witness: a reading exactly at the hard limit got the child killed
C6_Witness ==
    /\ step.what = "read"
    /\ step.mem = workers[step.slot].hard_memory_limit
    /\ procs[step.pid].status = SIGKILL

\* C11: a child that has exited and is not yet reaped is never taken for
\* alive: the visit of a slot whose recorded child is a zombie (with a pid
\* left for os.fork, and os.fork not failing) gives the slot a new process
\* in that same visit.
C11_ZombieNotAlive ==
    [][\A s \in Slots :
         (/\ VisitDone(s)
          /\ pids[s] # 0
          /\ procs[pids[s]].pc = "zombie"
          /\ nextpid <= MaxPid
          /\ mpc' # "crashed")
         => /\ pids'[s] # pids[s]
            /\ Born = {pids'[s]}]_vars

\* C12: the alarm armed by Timeout is pending only while run() is being
\* called: it is disarmed when run() returns, when run() raises and when
\* the alarm itself went off.  So TimeoutException is raised nowhere but in
\* the guarded call: never in the check-point sleep, in the except clauses,
\* at the loop condition or in after_run, and never escapes start().
C12_AlarmOnlyDuringRun ==
    \A p \in Pids :
        /\ procs[p].alarm => procs[p].pc = "run"
        /\ procs[p].reported # "TimeoutException"
        /\ W(p).is_exit = "timeout" => procs[p].pc \in {"after_run", "zombie"}

\* C12 witness: a Worker with a timeout whose run() raised is back at the
\* loop condition with no alarm armed
C12_Witness ==
    \E p \in Pids :
        /\ Truthy(W(p).timeout)
        /\ W(p).work = {"error"}
        /\ procs[p].pc = "loop"
        /\ procs[p].calls >= 1
        /\ ~procs[p].alarm

\* C13: when get_memory or kill_child raised for a slot, the pass goes on:
\* if the slot was not the last one the Manager is visiting the next slot,
\* if it was the last the pass ended normally (sleep, then the loop
\* condition, then the next pass from slot 0 or the shutdown); the slot
\* keeps its recorded pid, which still exists, so the next pass inspects it
\* again.
C13_InspectErrorNotFatal ==
    step.what = "error" =>
        /\ step.slot < NSlots - 1 => (mpc = "visit" /\ i = step.slot + 1)
        /\ step.slot = NSlots - 1 =>
             /\ mpc \in {"sleep", "loop", "visit", "shutdown"}
             /\ mpc = "visit" => i = 0
        /\ pids[step.slot] = step.pid
        /\ pid_exists(step.pid)

\* C13 witness: the inspection of slot 0 has failed and the Manager is
\* visiting slot 1
C13_Witness ==
    /\ step.what = "error"
    /\ step.slot = 0
    /\ mpc = "visit"
    /\ i = 1
    /\ Running(pids[1])

\* C14: Manager(workers, log) with an empty roster, whatever the log
\* argument, ends in sys.exit(0) inside the constructor; no child process
\* exists.
C14_EmptyRosterExits ==
    DOMAIN workers = {} =>
        /\ mpc \in {"new", "exited"}
        /\ \A p \in Pids : procs[p].pc = "none"

\* What does hold for an empty roster (C14 fails for log = None alone): the
\* constructor never returns a Manager, by sys.exit(0) or by the
\* AttributeError, and no child process exists
C14_EmptyRosterNoManager ==
    DOMAIN workers = {} =>
        /\ mpc \in {"new", "exited", "AttributeError"}
        /\ \A p \in Pids : procs[p].pc = "none"

\* The child p has ended by leaving worker.start() (it was not killed)
EndedOnItsOwn(p) == procs[p].pc = "zombie" /\ procs[p].reported # "None"

\* C15: every forked child that ended on its own has exit status 0,
\* whether start() returned after the bound was reached, after a timeout
\* or after a signal, or was left by an exception.
C15_ChildExitsZero ==
    \A p \in Pids : EndedOnItsOwn(p) => procs[p].status = 0

\* C15 witness: a child whose start() was left by an exception has ended
\* with status 0, and another ended after reaching max_requests
C15_Witness ==
    /\ \E p \in Pids : /\ EndedOnItsOwn(p)
                       /\ procs[p].reported = "Exception"
                       /\ procs[p].status = 0
    /\ \E p \in Pids : /\ EndedOnItsOwn(p)
                       /\ procs[p].reported = "max_requests"
                       /\ procs[p].status = 0

\* C16: with check_point set, whatever a call of run() did, the loop
\* condition is evaluated again (and so run() called again) only after the
\* check-point sleep: a step from a call of run() never leads straight to
\* the loop condition.
C16_PauseBetweenCalls ==
    [][\A p \in Pids :
         (/\ Truthy(W(p).check_point)
          /\ procs[p].pc = "run"
          /\ procs'[p].pc # "run")
         => procs'[p].pc # "loop"]_vars

\* What does hold (C16 fails after a logged exception alone): with
\* check_point set, a call of run() that returns is followed by the sleep
C16_PauseAfterReturn ==
    [][\A p \in Pids :
         (/\ Truthy(W(p).check_point)
          /\ WorkerRunReturns(p)
          /\ procs[p].pc = "run")
         => procs'[p].pc = "sleep"]_vars

\* C17: a SIGTERM the Manager has sent to a child is, whenever it is
\* delivered, handled by Worker.signal_handler: the delivery sets the
\* Worker's is_exit to 'signal'.
C17_WorkerHandlesTerminate ==
    [][\A p \in Pids :
         (/\ <<p, SIGTERM>> \in step.kills
          /\ WorkerSignal(p))
         => procs'[p].worker.is_exit = "signal"]_vars

\* What does hold (C17 fails before the handlers are installed alone): a
\* SIGTERM delivered once start() has installed the Worker's handlers sets
\* is_exit to 'signal'
C17_WorkerHandlesTerminateInStart ==
    [][\A p \in Pids :
         (/\ <<p, SIGTERM>> \in step.kills
          /\ WorkerSignal(p)
          /\ InStart(p))
         => procs'[p].worker.is_exit = "signal"]_vars

\* C18: once Manager.is_exit is true the Manager starts no new pass over
\* the roster and no child process is created any more, also in the rest
\* of a pass that was under way when the signal came.
C18_NoSpawnAfterSignal ==
    [][is_exit =>
         /\ ~(mpc = "loop" /\ mpc' = "visit")
         /\ Born = {}]_vars

\* What does hold (C18 fails for the pass under way alone): with is_exit
\* true no new pass is started, and outside a pass no child is created
C18_NoNewPassAfterSignal ==
    [][is_exit =>
         /\ ~(mpc = "loop" /\ mpc' = "visit")
         /\ mpc # "visit" => Born = {}]_vars

\* C19: in every step of a Worker process count stays or grows by one; it
\* grows only in a step that ends a call of run() by a return, and only if
\* run() can return a truthy value; every return of an always-truthy run()
\* is counted; a step in which run() raises, the alarm goes off or the
\* signal handler runs leaves count as it is.
C19_CountOnlyOnTruthy ==
    [][\A p \in Pids :
         procs'[p].pc # "none" =>
           /\ procs'[p].worker.count \in {W(p).count, W(p).count + 1}
           /\ procs'[p].worker.count # W(p).count =>
                /\ procs[p].pc = "run"
                /\ procs'[p].pc \in {"sleep", "loop"}
                /\ "truthy" \in W(p).work
           /\ (/\ W(p).work = {"truthy"}
               /\ procs[p].pc = "run"
               /\ procs'[p].pc \in {"sleep", "loop"})
                => procs'[p].worker.count = W(p).count + 1
           /\ (WorkerRunRaises(p) \/ WorkerAlarm(p) \/ WorkerSignal(p))
                => procs'[p].worker.count = W(p).count]_vars

\* C19 witness: of three calls of run() two returned a truthy value, and
\* run() can also return a falsy value and raise
C19_Witness ==
    \E p \in Pids :
        /\ W(p).work = Outcomes
        /\ procs[p].calls = 3
        /\ W(p).count = 2
        /\ procs[p].pc = "after_run"

\* C20: the Worker objects of the Manager's roster stay as constructed
\* (count 0, is_exit None) whatever the children do, and every child, of a
\* first spawn or of a respawn, starts from a copy of its slot's roster
\* entry: count 0 and is_exit None.
C20_FreshWorkerPerSpawn ==
    /\ \A s \in DOMAIN workers :
         workers[s].count = 0 /\ workers[s].is_exit = "None"
    /\ \A p \in Pids :
         procs[p].pc = "forked" =>
           /\ W(p) = workers[procs[p].slot]
           /\ W(p).count = 0
           /\ W(p).is_exit = "None"

\* C20 witness: a respawned child is at its start with count 0 and is_exit
\* None while the other slot's child has counted a call
C20_Witness ==
    /\ step.what = "spawned"
    /\ step.was # 0
    /\ procs[step.pid].pc = "forked"
    /\ W(step.pid).count = 0
    /\ W(step.pid).is_exit = "None"
    /\ \E q \in Pids : Running(q) /\ W(q).count >= 1

\* C21: a process is ended by SIGKILL only in the visit of its slot, while
\* it was running, with a memory reading at or above the slot's hard limit
\* and with SIGKILL the only signal of that visit; every signal of the
\* shutdown round is SIGTERM; and the grace wait and the end of start()
\* change no process.
C21_KillOnlyAtHardLimit ==
    [][/\ \A p \in Pids :
            (procs[p].status # SIGKILL /\ procs'[p].status = SIGKILL)
            => /\ mpc = "visit"
               /\ p = pids[i]
               /\ Running(p)
               /\ step'.what = "read"
               /\ step'.slot = i
               /\ step'.mem >= workers[i].hard_memory_limit
               /\ step'.kills = {<<p, SIGKILL>>}
       /\ (mpc = "shutdown" /\ mpc' = "wait")
            => /\ step'.what = "shutdown"
               /\ \A k \in step'.kills : k[2] = SIGTERM
               /\ \A p \in Pids : Running(p) => Running(p)'
       /\ (mpc = "wait" /\ mpc' = "done") => procs' = procs]_vars

\* C21 witness: start() has returned after the shutdown round and a child
\* that was sent SIGTERM is still running, while another process was
\* killed at its hard limit earlier
C21_Witness ==
    /\ mpc = "done"
    /\ \E p \in Pids : Running(p) /\ <<p, SIGTERM>> \in step.kills
    /\ \E p \in Pids : procs[p].status = SIGKILL

\* p is in the while loop of _run
InLoop(p) == procs[p].pc \in {"loop", "run", "sleep"}

\* C22: in a Worker process init() runs once, before any call of run()
\* (start() is entered with no call made and never entered again); every
\* way out of the loop leads to after_run, which runs once: after it the
\* process has ended, with no further call of run(); and after_run reports
\* the recorded reason, 'signal' or 'timeout', or max requests when none
\* was recorded.
C22_HooksInOrder ==
    [][\A p \in Pids :
         /\ (procs[p].pc = "forked" /\ procs'[p].pc = "loop")
              => procs[p].calls = 0
         /\ (procs[p].pc # "forked" /\ procs'[p].pc # "none")
              => procs'[p].pc # "forked"
         /\ procs'[p].calls # procs[p].calls => InLoop(p)
         /\ (InLoop(p) /\ ~InLoop(p)') => procs'[p].pc = "after_run"
         /\ (procs[p].pc = "after_run" /\ procs'[p].pc # "after_run")
              => /\ procs'[p].pc = "zombie"
                 /\ procs'[p].calls = procs[p].calls
                 /\ procs'[p].reported =
                      IF W(p).is_exit = "None" THEN "max_requests"
                      ELSE W(p).is_exit]_vars

\* C22 witness: a Worker has ended after two counted calls with no exit
\* reason recorded, and after_run reported max requests
C22_Witness ==
    \E p \in Pids :
        /\ procs[p].pc = "zombie"
        /\ procs[p].reported = "max_requests"
        /\ W(p).is_exit = "None"
        /\ procs[p].calls = 2
        /\ W(p).count = 2

\* C23: the step in which a child leaves worker.start(), by return or by
\* exception, ends that child and does nothing else: no process is
\* created, no pid recorded, no other process touched, nothing of the
\* Manager changed.  An ended child only waits to be reaped.  And a
\* process is created, or a pid recorded, only by the Manager in the visit
\* of a slot, in a step that creates nothing but that slot's child.
C23_ChildNeverSupervises ==
    [][/\ \A p \in Pids :
            /\ (~EndedOnItsOwn(p) /\ EndedOnItsOwn(p)')
                 => /\ Born = {}
                    /\ UNCHANGED mvars
                    /\ \A q \in Pids \ {p} : procs'[q] = procs[q]
            /\ EndedOnItsOwn(p) => procs'[p] \in {procs[p], NoProc}
       /\ (Born # {} \/ pids' # pids)
            => /\ mpc = "visit"
               /\ Born = {pids'[i]}
               /\ \A s \in Slots \ {i} : pids'[s] = pids[s]
               /\ \A q \in Pids \ Born : procs'[q] = procs[q]]_vars

\* C23 witness: a child has left start() and ended, the pass is over, and
\* the only processes ever created are the Manager's one fork per slot
C23_Witness ==
    /\ mpc = "sleep"
    /\ nextpid = NSlots + 1
    /\ \E p \in Pids : /\ EndedOnItsOwn(p)
                       /\ pids[procs[p].slot] = p

====
